---- MODULE Spec2Model ----
(***************************************************************************)
(* TwoOwnerAccountAPI (src/pages/Account/account-api/account-api.ts): the   *)
(* client-side adapter of a smart-contract account controlled by two       *)
(* owners.  The module models the adapter instance, its lazily cached      *)
(* contract bindings, its asynchronous calls (one step per stretch of code *)
(* between two awaits), the two-party signing protocol and the gas         *)
(* adjustment, at the level of the bytes the adapter produces.             *)
(***************************************************************************)
EXTENDS Integers, Sequences, FiniteSets, TLC

(***************************************************************************)
(* Bounds of the model.                                                    *)
(***************************************************************************)
\* largest nonce the chain reports / an operation carries
MaxNonce == 1
\* largest callGasLimit an operation carries
MaxGas == 2
\* largest preVerificationGas the base operation builder estimates
MaxPreVerificationGas == 5

(***************************************************************************)
(* Sizes fixed by the wire formats the code uses.                          *)
(***************************************************************************)
\* an ABI word (ethers.utils.defaultAbiCoder)
WordSize == 32
\* an address in bytes (hexConcat of factory.address)
AddressSize == 20
\* a signed-message signature r ++ s ++ v (Wallet.signMessage)
SignatureSize == 65
\* a 4-byte function selector (Interface.encodeFunctionData)
SelectorSize == 4

(***************************************************************************)
(* Optional values: a JS value that may be null/undefined is a sequence of *)
(* length 0 (absent) or 1.  An absent string is the string "undefined".    *)
(***************************************************************************)
None == << >>
Some(x) == << x >>
Undefined == "undefined"

\* JS truthiness of an optional string: neither undefined nor ''
Truthy(s) == s # Undefined /\ s # ""

(***************************************************************************)
(* Bytes.                                                                  *)
(***************************************************************************)
Zeros(n) == [i \in 1..n |-> 0]

\* the big-endian w-byte form of n (n < 2^31)
BigEndian(n, w) ==
  [i \in 1..w |-> IF w - i > 3 THEN 0 ELSE (n \div (256 ^ (w - i))) % 256]

RECURSIVE FromBigEndian(_)
FromBigEndian(b) ==
  IF Len(b) = 0 THEN 0
  ELSE 256 * FromBigEndian(SubSeq(b, 1, Len(b) - 1)) + b[Len(b)]

\* the bytes from offset off (0-based), n of them
Slice(data, off, n) == SubSeq(data, off + 1, off + n)

\* right-padding with zeros to a multiple of the word size
PadRight(b) ==
  b \o Zeros((WordSize - (Len(b) % WordSize)) % WordSize)

\* left-padding of a value shorter than a word (an address)
PadLeft(b) == Zeros(WordSize - Len(b)) \o b

(***************************************************************************)
(* Addresses, keys: the strings the code handles, and their bytes.         *)
(***************************************************************************)
DEFAULT_FACTORY == "0x6c0ec05Ad55C8B8427119ce50b6087E7B0C9c23e"
ConfiguredFactory == "0xF1f1f1F1f1f1F1F1f1F1f1F1F1F1F1f1F1f1f1F1"
AddressA == "0xA1a1A1a1a1A1A1a1A1a1a1a1a1a1a1A1A1a1a1a1"
AddressB == "0xb2B2b2B2b2b2B2B2b2B2B2b2B2B2b2B2B2b2B2b2"
AddressK1 == "0xc1C1c1c1C1c1C1c1C1c1c1c1C1c1C1c1c1C1C1c1"
AddressK2 == "0xC2c2c2c2C2C2c2C2C2C2C2c2c2C2c2c2C2c2C2c2"

PrivateKey1 == "0x0101010101010101010101010101010101010101010101010101010101010101"
PrivateKey2 == "0x0202020202020202020202020202020202020202020202020202020202020202"
PrivateKeys == {PrivateKey1, PrivateKey2}

ValidAddresses ==
  {DEFAULT_FACTORY, ConfiguredFactory, AddressA, AddressB, AddressK1, AddressK2}

\* ethers getAddress: a string is an address or is rejected
IsAddress(s) == s \in ValidAddresses

\* arrayify of a hex string
HexBytes(s) ==
  CASE s = DEFAULT_FACTORY ->
         << 108, 14, 192, 90, 213, 92, 139, 132, 39, 17,
            156, 229, 11, 96, 135, 231, 176, 201, 194, 62 >>
    [] s = ConfiguredFactory -> [i \in 1..AddressSize |-> 241]
    [] s = AddressA -> [i \in 1..AddressSize |-> 161]
    [] s = AddressB -> [i \in 1..AddressSize |-> 178]
    [] s = AddressK1 -> [i \in 1..AddressSize |-> 193]
    [] s = AddressK2 -> [i \in 1..AddressSize |-> 194]
    [] s = PrivateKey1 -> [i \in 1..WordSize |-> 1]
    [] s = PrivateKey2 -> [i \in 1..WordSize |-> 2]
    [] s = "" -> << >>

\* Wallet.getAddress(): the address of a private key
WalletAddress(privateKey) ==
  IF privateKey = PrivateKey1 THEN AddressK1 ELSE AddressK2

(***************************************************************************)
(* ethers.utils.defaultAbiCoder.encode(['bytes', 'bytes'], [a, b]): two     *)
(* head words holding the offsets of the tails, then each tail as its      *)
(* length word followed by the bytes, zero-padded to whole words.          *)
(***************************************************************************)
EncodeDynamicBytes(b) == BigEndian(Len(b), WordSize) \o PadRight(b)

AbiEncodeBytesBytes(a, b) ==
  BigEndian(2 * WordSize, WordSize)
    \o BigEndian(2 * WordSize + Len(EncodeDynamicBytes(a)), WordSize)
    \o EncodeDynamicBytes(a)
    \o EncodeDynamicBytes(b)

\* the decoding the on-chain verifier applies: abi.decode(sig, (bytes, bytes))
DecodeDynamicBytes(data, off) ==
  Slice(data, off + WordSize, FromBigEndian(Slice(data, off, WordSize)))

AbiDecodeBytesBytes(data) ==
  << DecodeDynamicBytes(data, FromBigEndian(Slice(data, 0, WordSize))),
     DecodeDynamicBytes(data, FromBigEndian(Slice(data, WordSize, WordSize))) >>

(***************************************************************************)
(* Wallet.signMessage(bytes): the 65 bytes r ++ s ++ v.  The signature is  *)
(* a deterministic function of the key and of the message, and differs     *)
(* when either differs: r carries the key, s the 32-byte message.          *)
(***************************************************************************)
WalletSignMessage(privateKey, message) ==
  HexBytes(privateKey) \o PadLeft(message)
    \o BigEndian(27, SignatureSize - 2 * WordSize)

(***************************************************************************)
(* The outcome of a call: the value it returns, or the error it throws.    *)
(***************************************************************************)
Return(v) == [error |-> "", value |-> Some(v)]
Throw(message) == [error |-> message, value |-> None]

\* an outcome together with the argument object as the call leaves it
WithArgument(outcome, arg) ==
  [error |-> outcome.error, value |-> outcome.value, arg |-> arg]

(***************************************************************************)
(* State.                                                                  *)
(***************************************************************************)
VARIABLES
  this,          \* the adapter instance: its fields, the cached bindings included
  chain,         \* the chain as the provider reports it: account code, nonce
  pc,            \* per caller: where its pending adapter call is suspended
  call,          \* per caller: the pending or last call's locals and outcome
  serialized,    \* the last value serialize() returned
  restored,      \* the instance constructed from the serialized state
  userOp,        \* the operation the caller holds and passes to the adapter
  exposedHash,   \* the hash getUserOpHashToSign returned to the caller
  context,       \* the context the caller holds: context.signedMessage
  signed,        \* the last signUserOpWithContext call: its inputs and outcome
  built          \* the last createUnsignedUserOp call: base operation and outcome

vars ==
  << this, chain, pc, call, serialized, restored,
     userOp, exposedHash, context, signed, built >>

instanceVars == << this, chain, pc, call >>
serialVars == << serialized, restored >>
signingVars == << userOp, exposedHash, context, signed >>
otherVars == << serialVars, signingVars, built >>

\* the callers whose adapter calls may be pending at the same time
Callers == {"caller1", "caller2"}

\* the locals of a call; the fields marked (history) record what the call
\* saw, for the properties, and are read by no action
BlankCall ==
  [ method |-> "",
    args |-> None,
    phantom |-> None,          \* (history) what checkAccountPhantom answered
    cachedAtEntry |-> None,    \* (history) this.accountContract on entry
    built |-> FALSE,           \* (history) the call connected a binding
    binding |-> None,          \* what _getAccountContract returned
    read |-> None,             \* (history) the nonce the chain read gave
    factoryAddressAtCall |-> None,  \* (history) this.factoryAddress on entry
    factoryAtCall |-> None,    \* (history) this.factory on entry
    prefix |-> None,           \* this.factory.address, read before the await
    outcome |-> None ]

(***************************************************************************)
(* Construction.                                                           *)
(***************************************************************************)
\* Config.factory_address as the configuration may give it
ConfigValues == {Undefined, "", ConfiguredFactory}

\* const FACTORY_ADDRESS = Config.factory_address || '0x6c0e...'
FACTORY_ADDRESS(configured) ==
  IF Truthy(configured) THEN configured ELSE DEFAULT_FACTORY

\* the constructor's params: deserializeState and context are optional
NoState == None
ContextValues == {None, Some([address |-> ""]),
                  Some([address |-> AddressA]), Some([address |-> AddressB])}

\* params.context?.address
ContextAddress(ctx) == IF ctx = None THEN Undefined ELSE ctx[1].address

\* params.deserializeState?.privateKey, params.deserializeState?.ownerTwo
StatePrivateKey(st) == IF st = None THEN Undefined ELSE st[1].privateKey
StateOwnerTwo(st) == IF st = None THEN Undefined ELSE st[1].ownerTwo

\* this.ownerTwo = deserializeState?.ownerTwo ? deserializeState?.ownerTwo
\*                                            : context?.address || ''
ConstructOwnerTwo(st, ctx) ==
  IF Truthy(StateOwnerTwo(st)) THEN StateOwnerTwo(st)
  ELSE IF Truthy(ContextAddress(ctx)) THEN ContextAddress(ctx) ELSE ""

\* the constructor; random is the key Wallet.createRandom() would draw
Construct(st, ctx, random, configured) ==
  [ name |-> "SimpleAccountAPI",
    factoryAddress |-> FACTORY_ADDRESS(configured),
    ownerOne |-> IF Truthy(StatePrivateKey(st)) THEN StatePrivateKey(st)
                 ELSE random,
    ownerTwo |-> ConstructOwnerTwo(st, ctx),
    index |-> 0,
    accountContract |-> None,
    factory |-> None ]

\* every instance a fresh construction can produce
FreshInstances ==
  { Construct(NoState, ctx, k, cfg) :
      ctx \in ContextValues, k \in PrivateKeys, cfg \in ConfigValues }

(***************************************************************************)
(* The operation (UserOperationStruct) and its authorization hash.         *)
(***************************************************************************)
\* the deterministic account address: the CREATE2 pre-image stands for it
AccountAddress(inst) ==
  << inst.factoryAddress, WalletAddress(inst.ownerOne), inst.ownerTwo,
     inst.index >>

SampleCallData == << 182, 29, 39, 246 >>

Operation(inst, nonce, callGasLimit, preVerificationGas) ==
  [ sender |-> AccountAddress(inst),
    nonce |-> nonce,
    initCode |-> << >>,
    callData |-> SampleCallData,
    callGasLimit |-> callGasLimit,
    verificationGasLimit |-> 100000,
    preVerificationGas |-> preVerificationGas,
    maxFeePerGas |-> 30,
    maxPriorityFeePerGas |-> 2,
    paymasterAndData |-> << >>,
    signature |-> << >> ]

\* BaseAccountAPI.getUserOpHash: the 32-byte hash of every field but the
\* signature; operations that differ in such a field hash differently
getUserOpHash(op) ==
  BigEndian(
    1 + op.preVerificationGas
      + 64 * (op.callGasLimit
      + 64 * (op.nonce
      + 64 * (Len(op.initCode) + Len(op.callData) + Len(op.paymasterAndData)
              + op.maxFeePerGas + op.maxPriorityFeePerGas))),
    WordSize)

(***************************************************************************)
(* The signing protocol.                                                   *)
(***************************************************************************)
\* async signOwnerOne(userOpHash): ownerOne.signMessage(arrayify(userOpHash))
signOwnerOne(inst, userOpHash) == WalletSignMessage(inst.ownerOne, userOpHash)

\* getUserOpHashToSign = async (userOp) => this.getUserOpHash(userOp)
getUserOpHashToSign(inst, op) == getUserOpHash(op)

\* a variant that swaps the two signatures in the tuple
signUserOpWithContext_swapped(inst, op, ctx) ==
  WithArgument(
    Return([op EXCEPT !.signature =
      AbiEncodeBytesBytes(ctx.signedMessage,
                          signOwnerOne(inst, getUserOpHash(op)))]),
    op)

\* a variant that also overwrites a gas field of the returned operation
signUserOpWithContext_clobber(inst, op, ctx) ==
  WithArgument(
    Return([op EXCEPT !.signature =
                        AbiEncodeBytesBytes(signOwnerOne(inst, getUserOpHash(op)),
                                            ctx.signedMessage),
                      !.preVerificationGas = 0]),
    op)

\* a variant that refuses a context not signed over the operation's hash
signUserOpWithContext_validating(inst, op, ctx) ==
  WithArgument(
    IF \E k \in PrivateKeys :
         ctx.signedMessage = WalletSignMessage(k, getUserOpHash(op))
    THEN Return([op EXCEPT !.signature =
           AbiEncodeBytesBytes(signOwnerOne(inst, getUserOpHash(op)),
                               ctx.signedMessage)])
    ELSE Throw("stale signedMessage"),
    op)

\* a variant that signs the hash of the operation with its nonce advanced
signUserOpWithContext_otherhash(inst, op, ctx) ==
  WithArgument(
    Return([op EXCEPT !.signature =
      AbiEncodeBytesBytes(
        signOwnerOne(inst, getUserOpHash([op EXCEPT !.nonce = op.nonce + 1])),
        ctx.signedMessage)]),
    op)

\* signUserOpWithContext = async (userOp, context) =>
\*   ({ ...userOp, signature: encode(['bytes','bytes'],
\*        [await signOwnerOne(await getUserOpHash(userOp)), context.signedMessage]) })
signUserOpWithContext(inst, op, ctx) ==
  WithArgument(
    Return([op EXCEPT !.signature =
      AbiEncodeBytesBytes(signOwnerOne(inst, getUserOpHash(op)),
                          ctx.signedMessage)]),
    op)

(***************************************************************************)
(* The caller's side of the signing protocol.  The caller holds one        *)
(* operation; it may ask for its hash, have the second owner sign the hash *)
(* it was given, change the operation, and ask for the assembly.           *)
(***************************************************************************)
\* bytes a caller may pass as context.signedMessage without any signer
RawSignedMessages == { << >>, << 7 >> }

GetUserOpHashToSign ==
  /\ exposedHash' = Some([hash |-> getUserOpHashToSign(this, userOp),
                          userOp |-> userOp])
  /\ UNCHANGED << userOp, context, signed, built >>
  /\ UNCHANGED instanceVars
  /\ UNCHANGED serialVars

\* the Signing Coordinator: some wallet signs the hash the caller was given
SecondOwnerSigns ==
  /\ exposedHash # None
  /\ \E k \in PrivateKeys :
       context' = Some([signedMessage |->
                          WalletSignMessage(k, exposedHash[1].hash),
                        over |-> Some(exposedHash[1].hash)])
  /\ UNCHANGED << userOp, exposedHash, signed, built >>
  /\ UNCHANGED instanceVars
  /\ UNCHANGED serialVars

CallerSuppliesBytes ==
  /\ \E b \in RawSignedMessages :
       context' = Some([signedMessage |-> b, over |-> None])
  /\ UNCHANGED << userOp, exposedHash, signed, built >>
  /\ UNCHANGED instanceVars
  /\ UNCHANGED serialVars

\* the caller changes a gas limit of the operation it holds
ChangeUserOp ==
  /\ \E g \in 1..MaxGas :
       /\ g # userOp.callGasLimit
       /\ userOp' = [userOp EXCEPT !.callGasLimit = g]
  /\ UNCHANGED << exposedHash, context, signed, built >>
  /\ UNCHANGED instanceVars
  /\ UNCHANGED serialVars

SignUserOpWithContext ==
  /\ context # None
  /\ LET outcome ==
           signUserOpWithContext(
             this, userOp, [signedMessage |-> context[1].signedMessage])
     IN  /\ signed' = Some([userOp |-> userOp,
                            context |-> context[1],
                            exposed |-> exposedHash,
                            outcome |-> outcome])
         /\ userOp' = outcome.arg
  /\ UNCHANGED << exposedHash, context, built >>
  /\ UNCHANGED instanceVars
  /\ UNCHANGED serialVars

\* values of the variables a specification does not use
IdleCallers == [p \in Callers |-> "idle"]
NoCalls == [p \in Callers |-> BlankCall]
ChainAtRest == [deployed |-> FALSE, nonce |-> 0]

InitSign ==
  /\ this \in { Construct(NoState, Some([address |-> AddressB]), k, Undefined) :
                  k \in PrivateKeys }
  /\ chain = ChainAtRest
  /\ pc = IdleCallers
  /\ call = NoCalls
  /\ serialized = None
  /\ restored = None
  /\ userOp \in { Operation(this, 0, g, 4) : g \in 1..MaxGas }
  /\ exposedHash = None
  /\ context = None
  /\ signed = None
  /\ built = None

NextSign ==
  \/ GetUserOpHashToSign
  \/ SecondOwnerSigns
  \/ CallerSuppliesBytes
  \/ ChangeUserOp
  \/ SignUserOpWithContext

SpecSign == InitSign /\ [][NextSign]_vars

(***************************************************************************)
(* Properties of the signing protocol (checked under SpecSign).            *)
(***************************************************************************)
\* the last assembly call: its inputs, the operation it returned and the
\* pair the verifier decodes from that operation's signature
LastSigned == signed[1]
Assembled == LastSigned.outcome.value[1]
DecodedPair == AbiDecodeBytesBytes(Assembled.signature)
\* ownerOne's signed-message signature over the hash of the call's operation
LocalSignature ==
  WalletSignMessage(this.ownerOne, getUserOpHash(LastSigned.userOp))
SuppliedSignature == LastSigned.context.signedMessage
Reversed(pair) == << pair[2], pair[1] >>

\* C1 as stated: the signature field is the (bytes, bytes) encoding of
\* (L, c.signedMessage); decoding it yields that pair, and the pair read in
\* the reverse order never matches (L, c.signedMessage).
C1_Original ==
  signed # None =>
    /\ LastSigned.outcome.error = ""
    /\ Assembled.signature = AbiEncodeBytesBytes(LocalSignature, SuppliedSignature)
    /\ DecodedPair = << LocalSignature, SuppliedSignature >>
    /\ Reversed(DecodedPair) # << LocalSignature, SuppliedSignature >>

\* C1 amended: the signature field is the (bytes, bytes) encoding of
\* (L, c.signedMessage) and decodes to that pair in that order; the pair
\* read in the reverse order does not match whenever c.signedMessage differs
\* from L.
C1_DecodesInOrder ==
  signed # None =>
    /\ LastSigned.outcome.error = ""
    /\ Assembled.signature = AbiEncodeBytesBytes(LocalSignature, SuppliedSignature)
    /\ DecodedPair = << LocalSignature, SuppliedSignature >>
    /\ (SuppliedSignature # LocalSignature =>
          Reversed(DecodedPair) # << LocalSignature, SuppliedSignature >>)

\* an assembly whose two signatures differ, the second one not a whole
\* number of words long
C1_Witness ==
  /\ signed # None
  /\ LastSigned.outcome.error = ""
  /\ SuppliedSignature # LocalSignature
  /\ Len(SuppliedSignature) = SignatureSize
  /\ Len(Assembled.signature) > 2 * WordSize

\* the fields of an operation other than its signature
Frame(op) == [op EXCEPT !.signature = << >>]

\* C2: the operation signUserOpWithContext returns equals its input in every
\* field other than signature, and the call leaves the input operation as it
\* was.
C2_OnlySignatureChanges ==
  signed # None =>
    /\ LastSigned.outcome.error = ""
    /\ Frame(Assembled) = Frame(LastSigned.userOp)
    /\ LastSigned.outcome.arg = LastSigned.userOp
    /\ userOp.signature = << >>

\* an assembly that did set a non-empty signature on the returned operation
C2_Witness ==
  /\ signed # None
  /\ LastSigned.outcome.error = ""
  /\ Assembled.signature # LastSigned.userOp.signature
  /\ Assembled.preVerificationGas > 0
  /\ userOp = LastSigned.userOp

\* the second owner signed hash H and the call's operation hashes to H' # H
StaleContext ==
  /\ LastSigned.context.over # None
  /\ LastSigned.context.over[1] # getUserOpHash(LastSigned.userOp)

\* C3: when the second owner signed the exposed hash H and the operation then
\* changed to one with hash H' # H, signUserOpWithContext still returns an
\* assembled operation, without error: its first signature is ownerOne's over
\* H', its second the supplied one over H.
C3_StaleContextAccepted ==
  (signed # None /\ StaleContext) =>
    /\ LastSigned.outcome.error = ""
    /\ DecodedPair[1] = LocalSignature
    /\ DecodedPair[2] = SuppliedSignature
    /\ \E k \in PrivateKeys :
         SuppliedSignature = WalletSignMessage(k, LastSigned.context.over[1])
    /\ DecodedPair[1] #
         WalletSignMessage(this.ownerOne, LastSigned.context.over[1])

\* the hash was exposed, signed by the second owner, the operation changed,
\* and the assembly was called on the changed operation
C3_Witness ==
  /\ signed # None
  /\ StaleContext
  /\ LastSigned.exposed # None
  /\ LastSigned.exposed[1].hash = LastSigned.context.over[1]
  /\ LastSigned.exposed[1].userOp.callGasLimit # LastSigned.userOp.callGasLimit

\* the hash was exposed for the very operation the assembly was called on
HashExposedForSameOp ==
  /\ LastSigned.exposed # None
  /\ LastSigned.exposed[1].userOp = LastSigned.userOp

\* the local signature is over the exposed hash, and so is a second
\* signature that was made over the exposed hash
ExposedHashIsSignedHash ==
  (signed # None /\ HashExposedForSameOp) =>
    /\ DecodedPair[1] =
         WalletSignMessage(this.ownerOne, LastSigned.exposed[1].hash)
    /\ (LastSigned.context.over = Some(LastSigned.exposed[1].hash) =>
          \E k \in PrivateKeys :
            DecodedPair[2] = WalletSignMessage(k, LastSigned.exposed[1].hash))

\* a step that exposes a hash changes no field of the adapter
HashExposureKeepsState ==
  [][exposedHash' # exposedHash => this' = this]_vars

\* C4: for an operation unchanged between the two calls, the hash
\* getUserOpHashToSign returned is the hash signUserOpWithContext signs with
\* the local key, so a second signature made over the exposed hash and the
\* local one are over the same hash; getUserOpHashToSign changes no adapter
\* state.
C4_SameHash == []ExposedHashIsSignedHash /\ HashExposureKeepsState

\* both owners signed, over the hash exposed for the unchanged operation
C4_Witness ==
  /\ signed # None
  /\ HashExposedForSameOp
  /\ LastSigned.context.over = Some(LastSigned.exposed[1].hash)
  /\ DecodedPair[2] # DecodedPair[1]

(***************************************************************************)
(* createUnsignedUserOp: the base builder's operation with its             *)
(* preVerificationGas multiplied by 2.5.  A JS number is modelled as the   *)
(* fraction num/den in lowest terms, which is exact for the products the   *)
(* code forms (a double holds 5x/2 exactly for every gas value x).         *)
(***************************************************************************)
RECURSIVE Gcd(_, _)
Gcd(a, b) == IF b = 0 THEN a ELSE Gcd(b, a % b)

Fraction(num, den) ==
  LET g == IF num = 0 THEN den ELSE Gcd(num, den)
  IN  [num |-> num \div g, den |-> den \div g]

\* Number(x) of an integer BigNumberish
Number(x) == Fraction(x, 1)

\* a * 2.5
Times2p5(a) == Fraction(a.num * 5, a.den * 2)

\* encodeFunctionData('execute', [target, value, data]) of the account:
\* selector, then the head (address, uint256, offset of data), then data
EncodeExecuteData(target, value, data) ==
  << 182, 29, 39, 246 >>
    \o PadLeft(HexBytes(target))
    \o BigEndian(value, WordSize)
    \o BigEndian(3 * WordSize, WordSize)
    \o EncodeDynamicBytes(data)

\* TransactionDetailsForUserOp as callers give it
Infos ==
  [ target : {AddressA, AddressB},
    value : {1},
    data : { << >>, << 1 >> },
    gasLimit : {None} \cup { Some(g) : g \in 1..MaxGas } ]

\* super.createUnsignedUserOp(info): the base builder fills every field;
\* estimate is the preVerificationGas it computes, nonce the one it reads
BaseCreateUnsignedUserOp(inst, info, nonce, estimate) ==
  [ Operation(inst, nonce,
              IF info.gasLimit = None THEN MaxGas ELSE info.gasLimit[1],
              estimate)
    EXCEPT !.callData = EncodeExecuteData(info.target, info.value, info.data) ]

\* a variant computing the product in integers (5x/2 rounded down)
createUnsignedUserOp_floor(base) ==
  LET op == [base EXCEPT !.preVerificationGas =
               Number((5 * base.preVerificationGas) \div 2)]
  IN  WithArgument(Return(op), op)

\* async createUnsignedUserOp(info): base is what super returned;
\*   userOp.preVerificationGas = Number(await userOp.preVerificationGas) * 2.5
\* the object super returned is changed in place and returned
createUnsignedUserOp(base) ==
  LET op == [base EXCEPT !.preVerificationGas =
               Times2p5(Number(base.preVerificationGas))]
  IN  WithArgument(Return(op), op)

CreateUnsignedUserOp ==
  /\ \E info \in Infos, estimate \in 0..MaxPreVerificationGas :
       LET base == BaseCreateUnsignedUserOp(this, info, chain.nonce, estimate)
       IN  built' = Some([info |-> info, base |-> base,
                          outcome |-> createUnsignedUserOp(base)])
  /\ UNCHANGED signingVars
  /\ UNCHANGED instanceVars
  /\ UNCHANGED serialVars

InitGas ==
  /\ this \in { Construct(NoState, Some([address |-> AddressB]), k, Undefined) :
                  k \in PrivateKeys }
  /\ chain \in [deployed : {TRUE}, nonce : 0..MaxNonce]
  /\ pc = IdleCallers
  /\ call = NoCalls
  /\ serialized = None
  /\ restored = None
  /\ userOp = None
  /\ exposedHash = None
  /\ context = None
  /\ signed = None
  /\ built = None

NextGas == CreateUnsignedUserOp

SpecGas == InitGas /\ [][NextGas]_vars

\* the last built operation, the base builder's and the returned one
LastBuilt == built[1]
BuiltOp == LastBuilt.outcome.value[1]

\* C8: the returned operation's preVerificationGas is exactly 2.5 times the
\* base builder's (2 * result = 5 * base, odd base values included), the
\* factor applied once, and every other field is the base builder's.
C8_GasTimesTwoAndAHalf ==
  built # None =>
    /\ LastBuilt.outcome.error = ""
    /\ 2 * BuiltOp.preVerificationGas.num =
         5 * LastBuilt.base.preVerificationGas * BuiltOp.preVerificationGas.den
    /\ [BuiltOp EXCEPT !.preVerificationGas = 0] =
         [LastBuilt.base EXCEPT !.preVerificationGas = 0]

\* an operation built from an odd base value: its gas is not a whole number
C8_Witness ==
  /\ built # None
  /\ LastBuilt.base.preVerificationGas % 2 = 1
  /\ LastBuilt.base.preVerificationGas > 1
  /\ BuiltOp.preVerificationGas.den = 2

(***************************************************************************)
(* The adapter's calls on the chain and on its bindings.  An async method  *)
(* runs without interruption up to its next await; each action below is    *)
(* one such stretch of one caller's pending call.                          *)
(***************************************************************************)
\* X__factory.connect(address, provider): a new binding object; ethers keeps
\* the address as given.  by tells the objects of different calls apart
Connect(address, by) == [address |-> address, by |-> by]

\* BaseAccountAPI.getAccountAddress(): the deterministic account address
getAccountAddress(inst) == AccountAddress(inst)

\* BaseAccountAPI.checkAccountPhantom(): no code at the account's address
checkAccountPhantom == ~chain.deployed

SetCall(p, fields) == call' = [call EXCEPT ![p] = fields]
Goto(p, label) == pc' = [pc EXCEPT ![p] = label]

\* a variant that builds a new binding on every call
getAccountContract_isNull_always(inst) == TRUE

\* _getAccountContract: if (this.accountContract == null)
getAccountContract_isNull(inst) == inst.accountContract = None

\* _getAccountContract up to its await: the null check; a cached binding is
\* returned at once, otherwise the call suspends on getAccountAddress()
getAccountContract_enter(p, locals, continuation) ==
  IF getAccountContract_isNull(this)
  THEN /\ SetCall(p, [locals EXCEPT !.cachedAtEntry = Some(this.accountContract)])
       /\ Goto(p, "getAccountContract:await")
  ELSE /\ SetCall(p, [locals EXCEPT !.cachedAtEntry = Some(this.accountContract),
                                    !.binding = this.accountContract])
       /\ Goto(p, continuation)

Continuation(method) ==
  IF method = "getNonce" THEN "getNonce:read" ELSE "encodeExecute:encode"

\* _getAccountContract after its await: connect, write the cache, return it
getAccountContract_resume(p) ==
  /\ pc[p] = "getAccountContract:await"
  /\ LET binding == Connect(getAccountAddress(this), p)
     IN  /\ this' = [this EXCEPT !.accountContract = Some(binding)]
         /\ SetCall(p, [call[p] EXCEPT !.binding = Some(binding),
                                       !.built = TRUE])
  /\ Goto(p, Continuation(call[p].method))
  /\ UNCHANGED chain
  /\ UNCHANGED otherVars

\* a variant of getNonce without the phantom check
getNonce_check_unconditional(p) ==
  /\ pc[p] = "idle"
  /\ SetCall(p, [BlankCall EXCEPT !.method = "getNonce",
                                  !.phantom = Some(checkAccountPhantom)])
  /\ Goto(p, "getNonce:contract")
  /\ UNCHANGED << this, chain >>
  /\ UNCHANGED otherVars

\* getNonce: if (await this.checkAccountPhantom()) return BigNumber.from(0)
getNonce_check(p) ==
  /\ pc[p] = "idle"
  /\ IF checkAccountPhantom
     THEN /\ SetCall(p, [BlankCall EXCEPT !.method = "getNonce",
                                          !.phantom = Some(TRUE),
                                          !.outcome = Some(Return(0))])
          /\ Goto(p, "done")
     ELSE /\ SetCall(p, [BlankCall EXCEPT !.method = "getNonce",
                                          !.phantom = Some(FALSE)])
          /\ Goto(p, "getNonce:contract")
  /\ UNCHANGED << this, chain >>
  /\ UNCHANGED otherVars

\* getNonce: const accountContract = await this._getAccountContract()
getNonce_contract(p) ==
  /\ pc[p] = "getNonce:contract"
  /\ getAccountContract_enter(p, call[p], "getNonce:read")
  /\ UNCHANGED << this, chain >>
  /\ UNCHANGED otherVars

\* getNonce: return await accountContract.getNonce()
getNonce_read(p) ==
  /\ pc[p] = "getNonce:read"
  /\ SetCall(p, [call[p] EXCEPT !.read = Some(chain.nonce),
                                !.outcome = Some(Return(chain.nonce))])
  /\ Goto(p, "done")
  /\ UNCHANGED << this, chain >>
  /\ UNCHANGED otherVars

\* what callers pass to encodeExecute
ExecuteArgs == [target : {AddressA}, value : {1}, data : { << 1 >> }]

\* encodeExecute: const accountContract = await this._getAccountContract()
encodeExecute_call(p) ==
  /\ pc[p] = "idle"
  /\ \E args \in ExecuteArgs :
       getAccountContract_enter(
         p, [BlankCall EXCEPT !.method = "encodeExecute", !.args = Some(args)],
         "encodeExecute:encode")
  /\ UNCHANGED << this, chain >>
  /\ UNCHANGED otherVars

\* encodeExecute: return accountContract.interface.encodeFunctionData(...)
encodeExecute_encode(p) ==
  /\ pc[p] = "encodeExecute:encode"
  /\ LET args == call[p].args[1]
     IN  SetCall(p, [call[p] EXCEPT !.outcome =
           Some(Return(EncodeExecuteData(args.target, args.value, args.data)))])
  /\ Goto(p, "done")
  /\ UNCHANGED << this, chain >>
  /\ UNCHANGED otherVars

\* a variant that accepts the empty string as a factory address
getAccountInitCode_resolvable_nonNull(inst) ==
  inst.factoryAddress # Undefined

\* getAccountInitCode: this.factoryAddress != null && this.factoryAddress !== ''
getAccountInitCode_resolvable(inst) ==
  inst.factoryAddress # Undefined /\ inst.factoryAddress # ""

\* encodeFunctionData('createAccount', [ownerOne, ownerTwo, index]):
\* selector, address, address, uint256
EncodeCreateAccount(ownerOneAddress, ownerTwoAddress, index) ==
  << 18, 48, 174, 162 >>
    \o PadLeft(HexBytes(ownerOneAddress))
    \o PadLeft(HexBytes(ownerTwoAddress))
    \o BigEndian(index, WordSize)

\* a variant that passes the two owners in the other order
getAccountInitCode_bytes_swapped(prefix, inst) ==
  HexBytes(prefix)
    \o EncodeCreateAccount(inst.ownerTwo, WalletAddress(inst.ownerOne),
                           inst.index)

\* getAccountInitCode: hexConcat([this.factory.address,
\*   encodeFunctionData('createAccount', [ownerOne address, ownerTwo, index])])
getAccountInitCode_bytes(prefix, inst) ==
  HexBytes(prefix)
    \o EncodeCreateAccount(WalletAddress(inst.ownerOne), inst.ownerTwo,
                           inst.index)

\* getAccountInitCode up to its await: resolve the factory binding or throw,
\* read this.factory.address, suspend on ownerOne.getAddress()
getAccountInitCode_call(p) ==
  /\ pc[p] = "idle"
  /\ LET locals == [BlankCall EXCEPT !.method = "getAccountInitCode",
                      !.factoryAddressAtCall = Some(this.factoryAddress),
                      !.factoryAtCall = Some(this.factory)]
     IN  IF this.factory = None /\ ~getAccountInitCode_resolvable(this)
         THEN /\ SetCall(p, [locals EXCEPT !.outcome =
                       Some(Throw("no factory to get initCode"))])
              /\ Goto(p, "done")
              /\ UNCHANGED this
         ELSE LET factory ==
                    IF this.factory = None
                    THEN Connect(this.factoryAddress, p)
                    ELSE this.factory[1]
              IN  /\ this' = [this EXCEPT !.factory = Some(factory)]
                  /\ SetCall(p, [locals EXCEPT !.prefix = Some(factory.address)])
                  /\ Goto(p, "getAccountInitCode:await")
  /\ UNCHANGED chain
  /\ UNCHANGED otherVars

\* getAccountInitCode after its await: encode the arguments (the address
\* coder rejects a string that is no address) and concatenate
getAccountInitCode_encode(p) ==
  /\ pc[p] = "getAccountInitCode:await"
  /\ IF IsAddress(this.ownerTwo)
     THEN SetCall(p, [call[p] EXCEPT !.outcome =
            Some(Return(getAccountInitCode_bytes(call[p].prefix[1], this)))])
     ELSE SetCall(p, [call[p] EXCEPT !.outcome = Some(Throw("invalid address"))])
  /\ Goto(p, "done")
  /\ UNCHANGED << this, chain >>
  /\ UNCHANGED otherVars

\* the caller takes the outcome of its finished call
CallerResumes(p) ==
  /\ pc[p] = "done"
  /\ SetCall(p, BlankCall)
  /\ Goto(p, "idle")
  /\ UNCHANGED << this, chain >>
  /\ UNCHANGED otherVars

\* the chain: the account gets deployed, its nonce advances
Deploy ==
  /\ ~chain.deployed
  /\ chain' = [chain EXCEPT !.deployed = TRUE]
  /\ UNCHANGED << this, pc, call >>
  /\ UNCHANGED otherVars

NonceAdvances ==
  /\ chain.deployed
  /\ chain.nonce < MaxNonce
  /\ chain' = [chain EXCEPT !.nonce = chain.nonce + 1]
  /\ UNCHANGED << this, pc, call >>
  /\ UNCHANGED otherVars

Init ==
  /\ this \in FreshInstances
  /\ chain \in [deployed : BOOLEAN, nonce : 0..MaxNonce]
  /\ pc = IdleCallers
  /\ call = NoCalls
  /\ serialized = None
  /\ restored = None
  /\ userOp = None
  /\ exposedHash = None
  /\ context = None
  /\ signed = None
  /\ built = None

Next ==
  \/ \E p \in Callers :
       \/ getNonce_check(p)
       \/ getNonce_contract(p)
       \/ getNonce_read(p)
       \/ encodeExecute_call(p)
       \/ encodeExecute_encode(p)
       \/ getAccountContract_resume(p)
       \/ getAccountInitCode_call(p)
       \/ getAccountInitCode_encode(p)
       \/ CallerResumes(p)
  \/ Deploy
  \/ NonceAdvances

Spec == Init /\ [][Next]_vars

(***************************************************************************)
(* Properties of the adapter's calls (checked under Spec).                 *)
(***************************************************************************)
Finished(p, method) == pc[p] = "done" /\ call[p].method = method
Returned(p) == call[p].outcome # None /\ call[p].outcome[1].error = ""
ReturnedValue(p) == call[p].outcome[1].value[1]

\* C5: when the phantom predicate is true getNonce returns 0 whatever nonce
\* the chain holds, without reading it; when it is false getNonce returns
\* the nonce read through the account contract binding.
C5_PhantomNonceIsZero ==
  \A p \in Callers :
    call[p].method = "getNonce" =>
      /\ call[p].phantom = Some(TRUE) =>
           /\ pc[p] = "done"
           /\ Returned(p)
           /\ ReturnedValue(p) = 0
           /\ call[p].read = None
           /\ call[p].binding = None
      /\ (call[p].phantom = Some(FALSE) /\ pc[p] = "done") =>
           /\ Returned(p)
           /\ call[p].read = Some(ReturnedValue(p))
           /\ call[p].binding # None
           /\ call[p].binding[1].address = getAccountAddress(this)

\* one call answered 0 for a phantom account although the chain held a
\* non-zero nonce, another one returned the nonce read once deployed
C5_Witness ==
  \E p, q \in Callers :
    /\ Finished(p, "getNonce")
    /\ call[p].phantom = Some(TRUE)
    /\ ReturnedValue(p) = 0
    /\ chain.nonce > 0
    /\ Finished(q, "getNonce")
    /\ call[q].phantom = Some(FALSE)
    /\ ReturnedValue(q) > 0

C10_BindingsAgree ==
  /\ \A p \in Callers :
       /\ call[p].binding # None =>
            call[p].binding[1].address = getAccountAddress(this)
       /\ call[p].prefix # None => call[p].prefix[1] = this.factoryAddress
       /\ (call[p].cachedAtEntry # None /\ call[p].cachedAtEntry[1] # None) =>
            /\ ~call[p].built
            /\ call[p].binding = call[p].cachedAtEntry[1]
       /\ (call[p].factoryAtCall # None /\ call[p].factoryAtCall[1] # None
             /\ call[p].prefix # None) =>
            call[p].prefix[1] = call[p].factoryAtCall[1][1].address
  /\ \A p, q \in Callers :
       (call[p].binding # None /\ call[q].binding # None) =>
         call[p].binding[1].address = call[q].binding[1].address
  /\ this.accountContract # None =>
       this.accountContract[1].address = getAccountAddress(this)
  /\ this.factory # None => this.factory[1].address = this.factoryAddress

\* two calls both found no binding and each built one; the cache holds one
\* of the two
C10_Witness ==
  \E p, q \in Callers :
    /\ p # q
    /\ call[p].built /\ call[q].built
    /\ pc[p] = "done" /\ pc[q] = "done"
    /\ call[p].binding # call[q].binding
    /\ this.accountContract = call[q].binding

(***************************************************************************)
(* Serialization and reconstruction.                                       *)
(***************************************************************************)
\* serialize = async () => ({ privateKey: this.ownerOne.privateKey,
\*                            ownerTwo: this.ownerTwo })
serialize(inst) == [privateKey |-> inst.ownerOne, ownerTwo |-> inst.ownerTwo]

Serialize ==
  /\ serialized' = Some(serialize(this))
  /\ UNCHANGED restored
  /\ UNCHANGED instanceVars
  /\ UNCHANGED signingVars
  /\ UNCHANGED built

\* new TwoOwnerAccountAPI({ deserializeState, context, ... }) in a session
\* whose configuration and creation context are the session's own
Restore ==
  /\ serialized # None
  /\ \E ctx \in ContextValues, random \in PrivateKeys, cfg \in ConfigValues :
       restored' = Some(Construct(serialized, ctx, random, cfg))
  /\ UNCHANGED serialized
  /\ UNCHANGED instanceVars
  /\ UNCHANGED signingVars
  /\ UNCHANGED built

InitSerial ==
  /\ this \in FreshInstances
  /\ chain \in [deployed : BOOLEAN, nonce : 0..MaxNonce]
  /\ pc = IdleCallers
  /\ call = NoCalls
  /\ serialized = None
  /\ restored = None
  /\ userOp = None
  /\ exposedHash = None
  /\ context = None
  /\ signed = None
  /\ built = None

NextSerial ==
  \/ Serialize
  \/ Restore

SpecSerial == InitSerial /\ [][NextSerial]_vars

\* C9: an instance constructed from I.serialize() has I's ownerOne address
\* and I's ownerTwo, also when I's ownerTwo is the empty string and whatever
\* creation context the construction is given; serialize() leaves I as it is.
C9_RoundTrip ==
  restored # None =>
    /\ WalletAddress(restored[1].ownerOne) = WalletAddress(this.ownerOne)
    /\ restored[1].ownerTwo = this.ownerTwo
    /\ serialized = Some(serialize(this))

(***************************************************************************)
(* A caller may assign the instance's public factoryAddress field, which   *)
(* the class declares optional; the constructor itself always fills it.    *)
(***************************************************************************)
SetFactoryAddress ==
  /\ \E address \in {Undefined, "", ConfiguredFactory} :
       /\ address # this.factoryAddress
       /\ this' = [this EXCEPT !.factoryAddress = address]
  /\ UNCHANGED << chain, pc, call >>
  /\ UNCHANGED otherVars

InitFieldWrite ==
  /\ this \in FreshInstances
  /\ chain = ChainAtRest
  /\ pc = IdleCallers
  /\ call = NoCalls
  /\ serialized = None
  /\ restored = None
  /\ userOp = None
  /\ exposedHash = None
  /\ context = None
  /\ signed = None
  /\ built = None

NextFieldWrite ==
  \/ SetFactoryAddress
  \/ \E p \in Callers :
       \/ getAccountInitCode_call(p)
       \/ getAccountInitCode_encode(p)
       \/ CallerResumes(p)

SpecFieldWrite == InitFieldWrite /\ [][NextFieldWrite]_vars

ConfigurationError == Throw("no factory to get initCode")
Unresolvable(address) == address = Undefined \/ address = ""

\* C7 as stated: a getAccountInitCode call made while factoryAddress is
\* absent or empty fails with the configuration error and returns nothing.
C7_Original ==
  \A p \in Callers :
    (/\ call[p].method = "getAccountInitCode"
     /\ Unresolvable(call[p].factoryAddressAtCall[1])) =>
      /\ pc[p] = "done"
      /\ call[p].outcome = Some(ConfigurationError)

\* a call made with no resolvable address and no cached factory binding
\* fails with the configuration error
FailsWithoutFactory ==
  \A p \in Callers :
    (/\ call[p].method = "getAccountInitCode"
     /\ Unresolvable(call[p].factoryAddressAtCall[1])
     /\ call[p].factoryAtCall = Some(None)) =>
      /\ pc[p] = "done"
      /\ call[p].outcome = Some(ConfigurationError)

\* the failing call changes neither the instance's fields nor its cached
\* bindings
FailureKeepsInstance ==
  [][\A p \in Callers :
       (call[p].outcome = None /\ call'[p].outcome = Some(ConfigurationError))
         => this' = this]_vars

\* C7 amended: a getAccountInitCode call made while factoryAddress is absent
\* or empty and no factory binding is cached fails with the configuration
\* error and returns no init code; the failing call leaves the instance's
\* fields and cached bindings unchanged.
C7_ConfigurationError == []FailsWithoutFactory /\ FailureKeepsInstance

\* a call failed with the configuration error on an empty factoryAddress
C7_Witness ==
  \E p \in Callers :
    /\ Finished(p, "getAccountInitCode")
    /\ call[p].factoryAddressAtCall = Some("")
    /\ call[p].outcome = Some(ConfigurationError)
    /\ this.factory = None

====
